---- MODULE Spec2Model ----
(***************************************************************************)
(* Model of ArduPlane/ekf_check.cpp: the EKF variance monitor              *)
(* (Plane::ekf_check), its threshold evaluator (Plane::ekf_over_threshold) *)
(* and the EKF failsafe controller (Plane::failsafe_ekf_event and          *)
(* Plane::failsafe_ekf_off_event).                                         *)
(*                                                                         *)
(* Floating point variances and the threshold parameter are modelled as    *)
(* integers: the code only compares them with >= and <=, takes a maximum   *)
(* and doubles the threshold, all of which are exact on the integers.      *)
(***************************************************************************)
EXTENDS Integers, Sequences, FiniteSets, TLC

----------------------------------------------------------------------------
(* Program constants and integer widths *)

EKF_CHECK_ITERATIONS_MAX == 10

EKF_CHECK_WARNING_TIME == 30000

Uint8 == 256

\* a uint32_t is held as its two 16 bit halves <<high, low>>, each below Half
Half == 65536

\* the uint32_t of the number n (n below 2^31)
U32(n) == <<(n \div Half) % Half, n % Half>>

\* a - b on uint32_t: the difference modulo 2^32
Sub32(a, b) ==
    LET borrow == IF a[2] < b[2] THEN 1 ELSE 0
    IN  <<(a[1] - b[1] - borrow) % Half, (a[2] - b[2]) % Half>>

\* a > b on uint32_t
Gt32(a, b) == a[1] > b[1] \/ (a[1] = b[1] /\ a[2] > b[2])

----------------------------------------------------------------------------
(* Bounds of the model *)

\* largest variance value the estimator reports in the model
VarMax == 2

\* largest configured threshold (g2.fs_ekf_thresh) in the model
ThreshMax == 1

\* values of g2.fs_ekf_thresh: negative, zero (both disable) and positive
Thresholds == (-1)..ThreshMax

Variances == 0..VarMax

\* values AP_HAL::millis() returns in the model; the clock is a 32 bit
\* millisecond counter that wraps, so any value may follow any other
ClockValues == {U32(0), U32(EKF_CHECK_WARNING_TIME),
                U32(EKF_CHECK_WARNING_TIME + 1),
                U32(2 * EKF_CHECK_WARNING_TIME + 1),
                U32(2 * EKF_CHECK_WARNING_TIME + 2),
                <<Half - 1, Half - 1>>}

----------------------------------------------------------------------------
(* Side effects on the collaborators, in the order the code performs them *)

EvYawReset        == "ahrs.request_yaw_reset"
EvLaneSwitch      == "ahrs.check_lane_switch"
EvBadVariance     == "Write_Error(EKFCHECK,EKFCHECK_BAD_VARIANCE)"
EvVarianceCleared == "Write_Error(EKFCHECK,EKFCHECK_VARIANCE_CLEARED)"
EvWarning         == "gcs.send_text(CRITICAL,EKF variance)"
EvFsOccurred      == "Write_Error(FAILSAFE_EKFINAV,FAILSAFE_OCCURRED)"
EvFsResolved      == "Write_Error(FAILSAFE_EKFINAV,FAILSAFE_RESOLVED)"
EvModeQLand       == "set_mode(mode_qland,EKF_FAILSAFE)"
EvModeQHover      == "set_mode(mode_qhover,EKF_FAILSAFE)"
EvCallEngage      == "call failsafe_ekf_event"
EvCallClear       == "call failsafe_ekf_off_event"

\* every mode-switch request the module can issue, whatever its cause tag
ModeSwitchEvents == {EvModeQLand, EvModeQHover,
                     "set_mode(mode_qland,UNKNOWN)", "set_mode(mode_qhover,UNKNOWN)"}

RECURSIVE Count(_, _)
Count(e, tr) == IF tr = <<>> THEN 0
                ELSE (IF Head(tr) = e THEN 1 ELSE 0) + Count(e, Tail(tr))

RECURSIVE CountIn(_, _)
CountIn(S, tr) == IF tr = <<>> THEN 0
                  ELSE (IF Head(tr) \in S THEN 1 ELSE 0) + CountIn(S, Tail(tr))

Emitted(e, tr) == Count(e, tr) > 0

----------------------------------------------------------------------------
VARIABLES
    fail_count,      \* ekf_check_state.fail_count (uint8_t)
    bad_variance,    \* ekf_check_state.bad_variance (1 bit)
    last_warn_time,  \* ekf_check_state.last_warn_time (uint32_t, ms)
    failsafe_on,     \* ekf_check_state.failsafe_on
    ekf_bad,         \* AP_Notify::flags.ekf_bad
    out,             \* side effects of the last operation, in order
    tick,            \* the last operation and the inputs it read
    prev_op,         \* the operation before the last one
    sample,          \* the variances read by the last ekf_over_threshold
    reached_max,     \* history: see UpdReachedMax
    run,             \* history: see UpdRun
    fs_log_last,     \* history: the last failsafe log event written
    streak,          \* history: see UpdStreak
    false_since_latch, \* history: see UpdFalseSinceLatch
    last_latch,      \* history: see UpdLastLatch
    episode          \* history: see UpdEpisode

\* the history variables only the specifications SpecRuns and SpecClock keep
runs_vars == <<streak, false_since_latch>>

clock_vars == <<last_latch, episode>>

vars == <<fail_count, bad_variance, last_warn_time, failsafe_on, ekf_bad,
          out, tick, prev_op, sample, reached_max, run, fs_log_last,
          streak, false_since_latch, last_latch, episode>>

\* the static ekf_check_state structure and the notify flag, as one value
State == [fail_count |-> fail_count, bad_variance |-> bad_variance,
          last_warn_time |-> last_warn_time, failsafe_on |-> failsafe_on,
          ekf_bad |-> ekf_bad]

\* static storage is zero initialised
ZeroState == [fail_count |-> 0, bad_variance |-> FALSE, last_warn_time |-> U32(0),
              failsafe_on |-> FALSE, ekf_bad |-> FALSE]

----------------------------------------------------------------------------
(* Plane::ekf_over_threshold *)

fmaxf(a, b) == IF a >= b THEN a ELSE b

\* mag_max: the largest of the three magnetic variance axes
mag_max(s) == fmaxf(fmaxf(s.mag[1], s.mag[2]), s.mag[3])

\* contribution of the compass to over_thresh_count
MagScore(s, T) == IF mag_max(s) >= T THEN 1 ELSE 0

\* VelScore with the optical flow health ignored
VelScore_noflow(s, T) ==
    IF s.vel >= 2 * T THEN 2
    ELSE IF s.vel >= T THEN 1
    ELSE 0

\* contribution of the velocity variance to over_thresh_count
VelScore(s, T) ==
    IF ~s.optflow_healthy /\ s.vel >= 2 * T THEN 2
    ELSE IF s.vel >= T THEN 1
    ELSE 0

over_thresh_count(s, T) == (MagScore(s, T) + VelScore(s, T)) % Uint8

\* ekf_over_threshold with one signal over the threshold taken as enough
ekf_over_threshold_single(s, T) ==
    IF T <= 0 THEN FALSE
    ELSE IF (s.pos >= T /\ over_thresh_count(s, T) >= 1)
            \/ over_thresh_count(s, T) >= 1
         THEN TRUE
         ELSE FALSE

ekf_over_threshold(s, T) ==
    IF T <= 0 THEN FALSE
    ELSE IF (s.pos >= T /\ over_thresh_count(s, T) >= 1)
            \/ over_thresh_count(s, T) >= 2
         THEN TRUE
         ELSE FALSE

----------------------------------------------------------------------------
(* Plane::failsafe_ekf_event and Plane::failsafe_ekf_off_event.  Each takes *)
(* the state and the side effects so far and returns both.                  *)

\* FailsafeMode with the two target modes exchanged
FailsafeMode_swapped(auto) == IF auto THEN EvModeQHover ELSE EvModeQLand

\* the mode Engage switches to: QLAND under automatic control, else QHOVER
FailsafeMode(auto) == IF auto THEN EvModeQLand ELSE EvModeQHover

\* failsafe_ekf_event with the test of line 154 inverted
failsafe_ekf_event_inverted(st, tr, posvel, auto) ==
    IF st.failsafe_on
    THEN [st |-> st, out |-> tr]
    ELSE LET st1 == [st EXCEPT !.failsafe_on = TRUE]
             tr1 == Append(tr, EvFsOccurred)
         IN  IF posvel
             THEN [st |-> st1, out |-> tr1]
             ELSE [st |-> st1, out |-> Append(tr1, FailsafeMode(auto))]

\* failsafe_ekf_event without the early return of line 145
failsafe_ekf_event_noguard(st, tr, posvel, auto) ==
    LET st1 == [st EXCEPT !.failsafe_on = TRUE]
        tr1 == Append(tr, EvFsOccurred)
    IN  IF ~posvel
        THEN [st |-> st1, out |-> tr1]
        ELSE [st |-> st1, out |-> Append(tr1, FailsafeMode(auto))]

failsafe_ekf_event(st, tr, posvel, auto) ==
    IF st.failsafe_on
    THEN [st |-> st, out |-> tr]
    ELSE LET st1 == [st EXCEPT !.failsafe_on = TRUE]
             tr1 == Append(tr, EvFsOccurred)
         IN  IF ~posvel
             THEN [st |-> st1, out |-> tr1]
             ELSE [st |-> st1, out |-> Append(tr1, FailsafeMode(auto))]

\* failsafe_ekf_off_event without the early return of line 171
failsafe_ekf_off_event_noguard(st, tr) ==
    [st |-> [st EXCEPT !.failsafe_on = FALSE], out |-> Append(tr, EvFsResolved)]

failsafe_ekf_off_event(st, tr) ==
    IF ~st.failsafe_on
    THEN [st |-> st, out |-> tr]
    ELSE [st |-> [st EXCEPT !.failsafe_on = FALSE],
          out |-> Append(tr, EvFsResolved)]

----------------------------------------------------------------------------
(* Plane::ekf_check *)

\* the gate with a zero threshold taken as enabled
Inactive_strict(in) == ~in.armed \/ in.posvel \/ in.thresh < 0

\* the gate of line 42: the check is bypassed and the state reset
Inactive(in) == ~in.armed \/ in.posvel \/ in.thresh <= 0

\* lines 43-47: reset the counter and the latch, clear the failsafe
ekf_check_reset(st) ==
    LET st1 == [st EXCEPT !.fail_count = 0, !.bad_variance = FALSE,
                          !.ekf_bad = FALSE]
    IN  failsafe_ekf_off_event(st1, <<EvCallClear>>)

\* fail_count++ on a uint8_t
Increment(c) == (c + 1) % Uint8

\* AtLimit with > for >=
AtLimit_gt(c) == c > EKF_CHECK_ITERATIONS_MAX

\* line 67: the counter has reached the limit
AtLimit(c) == c >= EKF_CHECK_ITERATIONS_MAX

\* WarningDue with >= for >
WarningDue_ge(now, last) ==
    Gt32(Sub32(now, last), U32(EKF_CHECK_WARNING_TIME))
    \/ Sub32(now, last) = U32(EKF_CHECK_WARNING_TIME)

\* line 73: the warning cooldown has elapsed (unsigned 32 bit subtraction)
WarningDue(now, last) == Gt32(Sub32(now, last), U32(EKF_CHECK_WARNING_TIME))

\* RecoveryRequests with >= for the first == (line 56)
RecoveryRequests_atleast(c) ==
    (IF c >= EKF_CHECK_ITERATIONS_MAX - 2 THEN <<EvYawReset>> ELSE <<>>)
    \o (IF c = EKF_CHECK_ITERATIONS_MAX - 1 THEN <<EvLaneSwitch>> ELSE <<>>)

\* RecoveryRequests one iteration late
RecoveryRequests_late(c) ==
    (IF c = EKF_CHECK_ITERATIONS_MAX - 1 THEN <<EvYawReset>> ELSE <<>>)
    \o (IF c = EKF_CHECK_ITERATIONS_MAX THEN <<EvLaneSwitch>> ELSE <<>>)

\* lines 56-65: the two recovery requests, issued after the increment
RecoveryRequests(c) ==
    (IF c = EKF_CHECK_ITERATIONS_MAX - 2 THEN <<EvYawReset>> ELSE <<>>)
    \o (IF c = EKF_CHECK_ITERATIONS_MAX - 1 THEN <<EvLaneSwitch>> ELSE <<>>)

\* ekf_check_latch with the assignment of line 75 missing
ekf_check_latch_nostamp(st, tr, in) ==
    LET st1  == [st EXCEPT !.fail_count = EKF_CHECK_ITERATIONS_MAX,
                           !.bad_variance = TRUE]
        tr1  == Append(tr, EvBadVariance)
        warn == WarningDue(in.now, st.last_warn_time)
        tr2  == IF warn THEN Append(tr1, EvWarning) ELSE tr1
    IN  failsafe_ekf_event(st1, Append(tr2, EvCallEngage), in.posvel, in.auto)

\* lines 67-78: declare the variance bad, warn and engage the failsafe
ekf_check_latch(st, tr, in) ==
    LET st1  == [st EXCEPT !.fail_count = EKF_CHECK_ITERATIONS_MAX,
                           !.bad_variance = TRUE]
        tr1  == Append(tr, EvBadVariance)
        warn == WarningDue(in.now, st.last_warn_time)
        st2  == IF warn THEN [st1 EXCEPT !.last_warn_time = in.now2] ELSE st1
        tr2  == IF warn THEN Append(tr1, EvWarning) ELSE tr1
    IN  failsafe_ekf_event(st2, Append(tr2, EvCallEngage), in.posvel, in.auto)

\* ekf_check_over refilling the counter on a true verdict while latched
ekf_check_over_restore(st, in) ==
    IF ~st.bad_variance
    THEN LET c   == Increment(st.fail_count)
             st1 == [st EXCEPT !.fail_count = c]
             tr1 == RecoveryRequests(c)
         IN  IF AtLimit(c) THEN ekf_check_latch(st1, tr1, in)
             ELSE [st |-> st1, out |-> tr1]
    ELSE [st |-> [st EXCEPT !.fail_count = EKF_CHECK_ITERATIONS_MAX],
          out |-> <<>>]

\* ekf_check_over without the test of line 53
ekf_check_over_noguard(st, in) ==
    LET c   == Increment(st.fail_count)
        st1 == [st EXCEPT !.fail_count = c]
        tr1 == RecoveryRequests(c)
    IN  IF AtLimit(c) THEN ekf_check_latch(st1, tr1, in)
        ELSE [st |-> st1, out |-> tr1]

\* lines 52-79: the variances are over the threshold
ekf_check_over(st, in) ==
    IF ~st.bad_variance
    THEN LET c   == Increment(st.fail_count)
             st1 == [st EXCEPT !.fail_count = c]
             tr1 == RecoveryRequests(c)
         IN  IF AtLimit(c) THEN ekf_check_latch(st1, tr1, in)
             ELSE [st |-> st1, out |-> tr1]
    ELSE [st |-> st, out |-> <<>>]

\* fail_count-- on a uint8_t
Decrement(c) == (c - 1) % Uint8

\* ekf_check_under without the test of line 82
ekf_check_under_noguard(st) ==
    LET c   == Decrement(st.fail_count)
        st1 == [st EXCEPT !.fail_count = c]
    IN  IF st1.bad_variance /\ c = 0
        THEN failsafe_ekf_off_event(
                 [st1 EXCEPT !.bad_variance = FALSE],
                 <<EvVarianceCleared, EvCallClear>>)
        ELSE [st |-> st1, out |-> <<>>]

\* ekf_check_under without the call of line 90
ekf_check_under_noclear(st) ==
    IF st.fail_count > 0
    THEN LET c   == Decrement(st.fail_count)
             st1 == [st EXCEPT !.fail_count = c]
         IN  IF st1.bad_variance /\ c = 0
             THEN [st |-> [st1 EXCEPT !.bad_variance = FALSE],
                   out |-> <<EvVarianceCleared>>]
             ELSE [st |-> st1, out |-> <<>>]
    ELSE [st |-> st, out |-> <<>>]

\* lines 80-93: the variances are within the threshold
ekf_check_under(st) ==
    IF st.fail_count > 0
    THEN LET c   == Decrement(st.fail_count)
             st1 == [st EXCEPT !.fail_count = c]
         IN  IF st1.bad_variance /\ c = 0
             THEN failsafe_ekf_off_event(
                      [st1 EXCEPT !.bad_variance = FALSE],
                      <<EvVarianceCleared, EvCallClear>>)
             ELSE [st |-> st1, out |-> <<>>]
    ELSE [st |-> st, out |-> <<>>]

\* Publish with the assignment of line 96 missing
Publish_none(r) == r

\* line 96: publish the latch on AP_Notify::flags.ekf_bad
Publish(r) == [r EXCEPT !.st.ekf_bad = r.st.bad_variance]

\* ekf_check with the gate of line 42 tested before the origin of line 37
ekf_check_gate_first(st, in) ==
    IF Inactive(in) THEN ekf_check_reset(st)
    ELSE IF ~in.origin THEN [st |-> st, out |-> <<>>]
    ELSE IF ekf_over_threshold(in.sample, in.thresh)
         THEN Publish(ekf_check_over(st, in))
         ELSE Publish(ekf_check_under(st))

\* the whole of Plane::ekf_check on the inputs `in`
ekf_check(st, in) ==
    IF ~in.origin THEN [st |-> st, out |-> <<>>]
    ELSE IF Inactive(in) THEN ekf_check_reset(st)
    ELSE IF ekf_over_threshold(in.sample, in.thresh)
         THEN Publish(ekf_check_over(st, in))
         ELSE Publish(ekf_check_under(st))

----------------------------------------------------------------------------
(* Inputs *)

\* what ahrs.get_variances and optflow.healthy return
Samples == [mag : Variances \X Variances \X Variances, vel : Variances,
            pos : Variances, optflow_healthy : BOOLEAN]

NoSample == [mag |-> <<0, 0, 0>>, vel |-> 0, pos |-> 0, optflow_healthy |-> TRUE]

\* the samples the monitor's ticks are driven with: nothing over, compass
\* alone, compass with position, velocity alone with and without optical flow
TickSamples ==
    { NoSample,
      [NoSample EXCEPT !.mag = <<0, VarMax, 0>>],
      [NoSample EXCEPT !.mag = <<VarMax, 0, 0>>, !.pos = VarMax],
      [NoSample EXCEPT !.vel = VarMax],
      [NoSample EXCEPT !.vel = VarMax, !.optflow_healthy = FALSE] }

\* the second AP_HAL::millis() of a tick (line 75) reads the same millisecond
\* as the first (line 73) or the next one
SecondRead(now) == {t \in ClockValues : Sub32(t, now) \in {U32(0), U32(1)}}

NoTick == [op |-> "init", origin |-> FALSE, armed |-> FALSE, posvel |-> FALSE,
           auto |-> FALSE, thresh |-> 0, verdict |-> FALSE, now |-> U32(0),
           now2 |-> U32(0)]

----------------------------------------------------------------------------
(* History variables *)

\* fail_count has been at the limit at a tick boundary and has not been 0 at
\* a tick boundary since
UpdReachedMax(h, c) ==
    IF c = 0 THEN FALSE
    ELSE IF c = EKF_CHECK_ITERATIONS_MAX THEN TRUE
    ELSE h

\* the state the monitor is reset to by the gate
IsReset(st) == st.fail_count = 0 /\ ~st.bad_variance /\ ~st.failsafe_on

\* the tick passes the gate and ekf_over_threshold returns `v`
ActiveTick(in, v) ==
    in.origin /\ ~Inactive(in) /\ ekf_over_threshold(in.sample, in.thresh) = v

\* the number of consecutive active true-verdict ticks since the reset state,
\* counted up to one past the limit; 0 when the last tick was anything else
UpdRun(r, st, in) ==
    IF ActiveTick(in, TRUE)
    THEN IF IsReset(st) THEN 1
         ELSE IF r > 0
              THEN (IF r > EKF_CHECK_ITERATIONS_MAX THEN r ELSE r + 1)
              ELSE 0
    ELSE 0

\* the failsafe log events of a trace, in order
RECURSIVE FsLog(_)
FsLog(tr) ==
    IF tr = <<>> THEN <<>>
    ELSE (IF Head(tr) \in {EvFsOccurred, EvFsResolved} THEN <<Head(tr)>> ELSE <<>>)
         \o FsLog(Tail(tr))

UpdFsLogLast(last, tr) ==
    IF FsLog(tr) = <<>> THEN last ELSE FsLog(tr)[Len(FsLog(tr))]

\* the operation recorded in `t` is a tick that passed the gate and whose
\* verdict was `v`
ActiveTickOf(t, v) ==
    t.op = "ekf_check" /\ t.origin /\ ~Inactive(t) /\ t.verdict = v

\* the number of consecutive active ticks with the same verdict, up to the
\* limit: positive for true verdicts, negative for false ones, 0 when the
\* last operation was anything else
UpdStreak(s, t) ==
    IF ActiveTickOf(t, TRUE)
    THEN (IF s <= 0 THEN 1
          ELSE IF s < EKF_CHECK_ITERATIONS_MAX THEN s + 1 ELSE s)
    ELSE IF ActiveTickOf(t, FALSE)
    THEN (IF s >= 0 THEN -1
          ELSE IF s > -EKF_CHECK_ITERATIONS_MAX THEN s - 1 ELSE s)
    ELSE 0

\* the number of active false-verdict ticks since the tick that declared the
\* variance bad, while every tick since passed the gate or had no origin;
\* -1 outside such a period and after the tick that follows the limit
UpdFalseSinceLatch(f, t, tr) ==
    IF Emitted(EvBadVariance, tr) THEN 0
    ELSE IF f = -1 \/ f = EKF_CHECK_ITERATIONS_MAX THEN -1
    ELSE IF t.op # "ekf_check" THEN -1
    ELSE IF ~t.origin THEN f
    ELSE IF Inactive(t) THEN -1
    ELSE IF ~t.verdict THEN f + 1
    ELSE f

NoLatch == [any |-> FALSE, now |-> U32(0), read |-> U32(0), warned |-> FALSE]

\* the most recent tick that declared the variance bad: the clock it read
\* at line 73, the last clock value it read (that of line 75 when it sent
\* the warning, `lw2` being last_warn_time after the tick) and whether it
\* sent the warning
UpdLastLatch(l, t, tr) ==
    IF Emitted(EvBadVariance, tr)
    THEN [any |-> TRUE, now |-> t.now, read |-> t.now2,
          warned |-> Emitted(EvWarning, tr)]
    ELSE l

\* the elapsed time (modulo 2^32) a - b is within the warning cooldown
WithinCooldown(a, b) == ~Gt32(Sub32(a, b), U32(EKF_CHECK_WARNING_TIME))

\* the time from the latch `l` to a read of the clock that returns `now`
\* is within the cooldown.  The time between two successive reads is their
\* difference modulo 2^32, and `l` read the clock at l.now and last at
\* l.read, at most a millisecond later.
LatchWithinCooldown(l, now) ==
    LET d1 == Sub32(l.read, l.now)
        d2 == Sub32(now, l.read)
    IN  d1[1] = 0 /\ d2[1] = 0 /\ d1[2] + d2[2] <= EKF_CHECK_WARNING_TIME

\* what the last operation did about the warning.  latch: it declared the
\* variance bad; first: no tick had before; within: the tick before that
\* did so read a clock within the cooldown of this one's; warnings: the
\* warnings those two ticks sent; due: this one's clock is more than the
\* cooldown after last_warn_time as the tick found it; warned: it sent the
\* warning; lw_moved: it changed last_warn_time
UpdEpisode(l, t, tr, lw, lw2) ==
    LET latch == Emitted(EvBadVariance, tr)
        w     == Emitted(EvWarning, tr)
    IN  [latch    |-> latch,
         first    |-> latch /\ ~l.any,
         within   |-> latch /\ l.any /\ LatchWithinCooldown(l, t.now),
         warnings |-> IF latch
                      THEN (IF l.any /\ l.warned THEN 1 ELSE 0)
                           + (IF w THEN 1 ELSE 0)
                      ELSE 0,
         due      |-> latch /\ ~WithinCooldown(t.now, lw),
         warned   |-> w,
         lw_moved |-> lw2 # lw]

NoEpisode == [latch |-> FALSE, first |-> FALSE, within |-> FALSE,
              warnings |-> 0, due |-> FALSE, warned |-> FALSE,
              lw_moved |-> FALSE]

----------------------------------------------------------------------------
(* Actions *)

\* write back the result `r` of an operation
Commit(r) ==
    /\ fail_count' = r.st.fail_count
    /\ bad_variance' = r.st.bad_variance
    /\ last_warn_time' = r.st.last_warn_time
    /\ failsafe_on' = r.st.failsafe_on
    /\ ekf_bad' = r.st.ekf_bad
    /\ out' = r.out
    /\ reached_max' = UpdReachedMax(reached_max, r.st.fail_count)
    /\ fs_log_last' = UpdFsLogLast(fs_log_last, r.out)
    /\ prev_op' = tick.op

Init ==
    /\ fail_count = ZeroState.fail_count
    /\ bad_variance = ZeroState.bad_variance
    /\ last_warn_time = ZeroState.last_warn_time
    /\ failsafe_on = ZeroState.failsafe_on
    /\ ekf_bad = ZeroState.ekf_bad
    /\ out = <<>>
    /\ tick = NoTick
    /\ prev_op = "none"
    /\ sample = NoSample
    /\ reached_max = FALSE
    /\ run = 0
    /\ fs_log_last = "none"
    /\ streak = 0
    /\ false_since_latch = -1
    /\ last_latch = NoLatch
    /\ episode = NoEpisode

\* the tick's inputs before the clock and the control source are read
Inputs(origin, armed, posvel, thresh, smp) ==
    [origin |-> origin, armed |-> armed, posvel |-> posvel, auto |-> FALSE,
     thresh |-> thresh, sample |-> smp, now |-> U32(0), now2 |-> U32(0)]

\* ahrs.get_variances is called only on a tick that passes the gate
SamplesRead(in) == IF in.origin /\ ~Inactive(in) THEN TickSamples ELSE {NoSample}

\* AP_HAL::millis and quadplane.in_vtol_auto are called only on the tick
\* that declares the variance bad (lines 73-77 and 158)
Latches(st, in) == Emitted(EvBadVariance, ekf_check(st, in).out)

ClockRead(st, in) == IF Latches(st, in) THEN ClockValues ELSE {U32(0)}

AutoRead(st, in) == IF Latches(st, in) THEN BOOLEAN ELSE {FALSE}

\* one call of Plane::ekf_check by the scheduler
TickStep ==
    \E origin, armed, posvel \in BOOLEAN, thresh \in Thresholds :
      \E smp \in SamplesRead(Inputs(origin, armed, posvel, thresh, NoSample)) :
        LET in0 == Inputs(origin, armed, posvel, thresh, smp)
        IN  \E auto \in AutoRead(State, in0), now \in ClockRead(State, in0) :
              \E now2 \in SecondRead(now) :
                LET in == [in0 EXCEPT !.auto = auto, !.now = now, !.now2 = now2]
                IN  /\ Commit(ekf_check(State, in))
                    /\ run' = UpdRun(run, State, in)
                    /\ sample' = smp
                    /\ tick' = [op |-> "ekf_check", origin |-> origin,
                                armed |-> armed, posvel |-> posvel,
                                auto |-> auto, thresh |-> thresh,
                                verdict |-> ActiveTick(in, TRUE), now |-> now,
                                now2 |-> IF Emitted(EvWarning, out')
                                         THEN now2 ELSE now]

\* a tick, the histories of runs_vars and clock_vars not kept
Tick == TickStep /\ UNCHANGED <<runs_vars, clock_vars>>

\* a tick, the histories of runs_vars kept
TickRuns ==
    /\ TickStep
    /\ streak' = UpdStreak(streak, tick')
    /\ false_since_latch' = UpdFalseSinceLatch(false_since_latch, tick', out')
    /\ UNCHANGED clock_vars

\* a tick, the histories of clock_vars kept
TickClock ==
    /\ TickStep
    /\ last_latch' = UpdLastLatch(last_latch, tick', out')
    /\ episode' = UpdEpisode(last_latch, tick', out',
                             last_warn_time, last_warn_time')
    /\ UNCHANGED runs_vars

\* a direct call of Plane::failsafe_ekf_event
CallEngage ==
    \E posvel, auto \in BOOLEAN :
        /\ UNCHANGED <<runs_vars, clock_vars>>
        /\ Commit(failsafe_ekf_event(State, <<>>, posvel, auto))
        /\ run' = 0
        /\ sample' = NoSample
        /\ tick' = [NoTick EXCEPT !.op = "failsafe_ekf_event",
                                  !.posvel = posvel, !.auto = auto]

\* a direct call of Plane::failsafe_ekf_off_event
CallClear ==
    /\ UNCHANGED <<runs_vars, clock_vars>>
    /\ Commit(failsafe_ekf_off_event(State, <<>>))
    /\ run' = 0
    /\ sample' = NoSample
    /\ tick' = [NoTick EXCEPT !.op = "failsafe_ekf_off_event"]

\* the monitor as the scheduler runs it: ticks only
Next == Tick

Spec == Init /\ [][Next]_vars

\* the monitor together with direct calls of the failsafe entry points
NextCalls == Tick \/ CallEngage \/ CallClear

SpecCalls == Init /\ [][NextCalls]_vars

\* the ticks with the history of runs of equal verdicts
NextRuns == TickRuns

SpecRuns == Init /\ [][NextRuns]_vars

\* the ticks with the history of the warnings
NextClock == TickClock

SpecClock == Init /\ [][NextClock]_vars

\* the threshold evaluator alone, on every sample and threshold of the bounds
InitEval ==
    /\ Init!1 /\ Init!2 /\ Init!3 /\ Init!4 /\ Init!5 /\ Init!6
    /\ Init!8 /\ Init!10 /\ Init!11 /\ Init!12
    /\ Init!13 /\ Init!14 /\ Init!15 /\ Init!16
    /\ sample \in Samples
    /\ tick \in {[NoTick EXCEPT !.thresh = T] : T \in Thresholds}

Evaluate ==
    /\ tick.op = "init"
    /\ tick' = [tick EXCEPT !.op = "ekf_over_threshold",
                            !.verdict = ekf_over_threshold(sample, tick.thresh)]
    /\ prev_op' = tick.op
    /\ UNCHANGED <<fail_count, bad_variance, last_warn_time, failsafe_on,
                   ekf_bad, out, sample, reached_max, run, fs_log_last,
                   runs_vars, clock_vars>>

NextEval == Evaluate

SpecEval == InitEval /\ [][NextEval]_vars

----------------------------------------------------------------------------
(* Properties *)

\* the last operation was a tick with a valid origin
OriginTick(t) == t.op = "ekf_check" /\ t.origin

\* the gate inputs of tick `t` bypass the check
GateOff(t) == ~t.armed \/ t.posvel \/ t.thresh <= 0

\* C1: bad_variance is true exactly when fail_count has been at the limit
\* at some tick boundary and has not been 0 at a tick boundary since.
C1_LatchIffReachedMax == bad_variance = reached_max

C1_Witness == bad_variance /\ fail_count = 1 /\ reached_max

\* C2: fail_count stays within 0..EKF_CHECK_ITERATIONS_MAX, and the limit is
\* at least 7: the 8 bit counter neither passes the limit nor wraps below 0.
C2_CountInRange ==
    /\ EKF_CHECK_ITERATIONS_MAX >= 7
    /\ fail_count \in 0..EKF_CHECK_ITERATIONS_MAX

C2_Witness ==
    /\ OriginTick(tick) /\ ~GateOff(tick) /\ tick.verdict
    /\ fail_count = EKF_CHECK_ITERATIONS_MAX /\ out = <<>>

\* C3 as stated: whenever bad_variance is true, fail_count is at the limit.
C3_Original == bad_variance => fail_count = EKF_CHECK_ITERATIONS_MAX

\* C3 as amended: while bad_variance is true fail_count is in 1..limit;
\* bad_variance becomes true only on a tick that leaves fail_count at the
\* limit; and while it stays true the counter never rises: a true verdict
\* leaves it unchanged and a false verdict lowers it by one.
C3_Amended ==
    /\ [](bad_variance => fail_count \in 1..EKF_CHECK_ITERATIONS_MAX)
    /\ [][(~bad_variance /\ bad_variance')
            => fail_count' = EKF_CHECK_ITERATIONS_MAX]_vars
    /\ [][(bad_variance /\ bad_variance' /\ OriginTick(tick') /\ ~GateOff(tick'))
            => fail_count' = (IF tick'.verdict THEN fail_count
                              ELSE fail_count - 1)]_vars

C3_Witness ==
    /\ OriginTick(tick) /\ ~GateOff(tick) /\ tick.verdict
    /\ bad_variance /\ fail_count = EKF_CHECK_ITERATIONS_MAX - 1

\* C4: on the k-th of consecutive active true-verdict ticks from the reset
\* state (k up to the limit) fail_count is k; bad_variance is latched and
\* Failsafe-Engage invoked exactly when k is the limit; the yaw reset is
\* requested once exactly when k is the limit - 2 and the lane switch once
\* exactly when k is the limit - 1.
C4_LatchOnTickMax ==
    (run \in 1..EKF_CHECK_ITERATIONS_MAX) =>
        /\ fail_count = run
        /\ bad_variance = (run = EKF_CHECK_ITERATIONS_MAX)
        /\ Count(EvYawReset, out) =
               (IF run = EKF_CHECK_ITERATIONS_MAX - 2 THEN 1 ELSE 0)
        /\ Count(EvLaneSwitch, out) =
               (IF run = EKF_CHECK_ITERATIONS_MAX - 1 THEN 1 ELSE 0)
        /\ Count(EvCallEngage, out) =
               (IF run = EKF_CHECK_ITERATIONS_MAX THEN 1 ELSE 0)
        /\ (run = EKF_CHECK_ITERATIONS_MAX =>
               failsafe_on /\ Count(EvFsOccurred, out) = 1
               /\ Count(EvBadVariance, out) = 1)

C4_Witness ==
    run = EKF_CHECK_ITERATIONS_MAX /\ bad_variance /\ Emitted(EvCallEngage, out)

\* C5: an active tick with a false verdict lowers fail_count by one if it
\* is above 0; when that takes it from 1 to 0 with bad_variance true, the
\* tick clears bad_variance, logs variance-cleared once and invokes
\* Failsafe-Clear, leaving the failsafe off; at 0 the tick changes nothing.
C5_FalseVerdictTick ==
    [][(OriginTick(tick') /\ ~GateOff(tick') /\ ~tick'.verdict) =>
        /\ fail_count' = (IF fail_count > 0 THEN fail_count - 1 ELSE 0)
        /\ (fail_count = 1 /\ bad_variance) =>
              /\ ~bad_variance'
              /\ Count(EvVarianceCleared, out') = 1
              /\ Count(EvCallClear, out') = 1
              /\ ~failsafe_on'
        /\ ~(fail_count = 1 /\ bad_variance) =>
              /\ bad_variance' = bad_variance
              /\ out' = <<>>
        /\ fail_count = 0 => State' = State /\ out' = <<>>]_vars

C5_Witness ==
    /\ OriginTick(tick) /\ ~GateOff(tick) /\ ~tick.verdict
    /\ out = <<EvVarianceCleared, EvCallClear, EvFsResolved>>
    /\ fail_count = 0 /\ ~bad_variance /\ ~failsafe_on

\* C6: a tick with a valid origin whose gate is off (disarmed, in a
\* position-velocity mode, or threshold <= 0) leaves fail_count = 0,
\* bad_variance and the failsafe off, whatever the state before; it invokes
\* Failsafe-Clear, which logs failsafe-resolved only if the failsafe was on.
C6_InactiveTickResets ==
    [][(OriginTick(tick') /\ GateOff(tick')) =>
        /\ fail_count' = 0
        /\ ~bad_variance'
        /\ ~failsafe_on'
        /\ ~ekf_bad'
        /\ last_warn_time' = last_warn_time
        /\ out' = (IF failsafe_on THEN <<EvCallClear, EvFsResolved>>
                   ELSE <<EvCallClear>>)]_vars

C6_Witness ==
    /\ OriginTick(tick) /\ tick.armed /\ ~tick.posvel /\ tick.thresh = 0
    /\ out = <<EvCallClear, EvFsResolved>>
    /\ fail_count = 0 /\ ~bad_variance /\ ~failsafe_on

\* C7: Failsafe-Engage from OFF logs failsafe-occurred once, requests at
\* most one mode switch and leaves the failsafe on, and called with the
\* failsafe on it does nothing; Failsafe-Clear from ON logs
\* failsafe-resolved once, requests no mode switch and leaves the failsafe
\* off, and called with the failsafe off it does nothing.
C7_Idempotent ==
    [][/\ tick'.op = "failsafe_ekf_event" =>
            IF failsafe_on
            THEN out' = <<>> /\ State' = State
            ELSE /\ Count(EvFsOccurred, out') = 1
                 /\ CountIn(ModeSwitchEvents, out') <= 1
                 /\ failsafe_on'
       /\ tick'.op = "failsafe_ekf_off_event" =>
            IF ~failsafe_on
            THEN out' = <<>> /\ State' = State
            ELSE /\ out' = <<EvFsResolved>>
                 /\ ~failsafe_on']_vars

C7_Witness ==
    /\ prev_op = "failsafe_ekf_event" /\ tick.op = "failsafe_ekf_event"
    /\ out = <<>> /\ failsafe_on /\ fs_log_last = EvFsOccurred

\* C8: when the failsafe goes from off to on, no mode switch is requested
\* if the vehicle is not in a position-velocity mode; otherwise exactly one
\* is requested, with cause EKF_FAILSAFE, to QLAND under automatic control
\* and to QHOVER under stick control.
C8_EngageModeSwitch ==
    [][(~failsafe_on /\ failsafe_on') =>
        IF ~tick'.posvel
        THEN CountIn(ModeSwitchEvents, out') = 0
        ELSE /\ CountIn(ModeSwitchEvents, out') = 1
             /\ Count(IF tick'.auto THEN EvModeQLand ELSE EvModeQHover,
                      out') = 1]_vars

C8_Witness ==
    /\ tick.op = "failsafe_ekf_event" /\ tick.posvel /\ tick.auto
    /\ out = <<EvFsOccurred, EvModeQLand>> /\ failsafe_on

\* the failsafe log events `log` continue a history whose last one is `last`
\* in strict alternation, beginning with failsafe-occurred
RECURSIVE Alternates(_, _)
Alternates(last, log) ==
    IF log = <<>> THEN TRUE
    ELSE /\ IF Head(log) = EvFsOccurred THEN last # EvFsOccurred
            ELSE last = EvFsOccurred
         /\ Alternates(Head(log), Tail(log))

\* C9: over the ticks the failsafe-occurred and failsafe-resolved log events
\* strictly alternate, beginning with failsafe-occurred, and the failsafe is
\* on exactly when the last of them is failsafe-occurred.
C9_LogsAlternate ==
    /\ [](failsafe_on <=> fs_log_last = EvFsOccurred)
    /\ [][Alternates(fs_log_last, FsLog(out'))]_vars

C9_Witness ==
    /\ Emitted(EvFsOccurred, out) /\ ~Emitted(EvWarning, out)
    /\ last_warn_time # U32(0) /\ fs_log_last = EvFsOccurred

\* the score and the verdict as the claim C10 words them
C10_Score(s, T) ==
    (IF \E i \in 1..3 : s.mag[i] >= T THEN 1 ELSE 0)
    + (IF ~s.optflow_healthy /\ s.vel >= 2 * T THEN 2
       ELSE IF s.vel >= T THEN 1 ELSE 0)

C10_Verdict(s, T) ==
    T > 0 /\ ((s.pos >= T /\ C10_Score(s, T) >= 1) \/ C10_Score(s, T) >= 2)

\* C10: for every sample and threshold of the bounds ekf_over_threshold
\* returns false when the threshold is <= 0 and otherwise
\* (position >= T and score >= 1) or score >= 2.
C10_ThresholdEvaluator ==
    tick.op = "ekf_over_threshold" =>
        tick.verdict = C10_Verdict(sample, tick.thresh)

C10_Witness ==
    /\ tick.op = "ekf_over_threshold" /\ tick.verdict /\ tick.thresh > 0
    /\ ~sample.optflow_healthy /\ sample.vel >= 2 * tick.thresh
    /\ sample.pos < tick.thresh
    /\ \A i \in 1..3 : sample.mag[i] < tick.thresh

\* the number of the three signals (compass, velocity, position) at or over T
C11_SignalsOver(s, T) ==
    (IF \E i \in 1..3 : s.mag[i] >= T THEN 1 ELSE 0)
    + (IF s.vel >= T THEN 1 ELSE 0)
    + (IF s.pos >= T THEN 1 ELSE 0)

\* C11: with a positive threshold a true verdict has at least two of the
\* three signals at or over T, or optical flow unhealthy and the velocity
\* variance at or over 2T; the compass alone at T gives false, and the
\* position at T together with the compass at T gives true.
C11_Corroboration ==
    (tick.op = "ekf_over_threshold" /\ tick.thresh > 0) =>
        /\ tick.verdict =>
              \/ C11_SignalsOver(sample, tick.thresh) >= 2
              \/ ~sample.optflow_healthy /\ sample.vel >= 2 * tick.thresh
        /\ (mag_max(sample) = tick.thresh /\ sample.vel < tick.thresh
            /\ sample.pos < tick.thresh) => ~tick.verdict
        /\ (mag_max(sample) = tick.thresh /\ sample.pos = tick.thresh)
              => tick.verdict

C11_Witness ==
    /\ tick.op = "ekf_over_threshold" /\ tick.thresh > 0 /\ tick.verdict
    /\ mag_max(sample) = tick.thresh /\ sample.pos = tick.thresh
    /\ sample.vel < tick.thresh

\* the step is an active tick with a true verdict taken with the latch clear
\* and fail_count at `c`
C13_IncrementFrom(c) ==
    /\ OriginTick(tick') /\ ~GateOff(tick') /\ tick'.verdict
    /\ ~bad_variance /\ fail_count = c

\* C13: the yaw reset is requested, once, exactly on a tick that increments
\* fail_count from the limit - 3 to the limit - 2, and the lane switch, once,
\* exactly on a tick that increments it from the limit - 2 to the limit - 1;
\* so a request recurs only after the counter has dropped below its mark,
\* and neither is issued while bad_variance is true.
C13_RecoveryRequests ==
    [][/\ Count(EvYawReset, out') =
            (IF C13_IncrementFrom(EKF_CHECK_ITERATIONS_MAX - 3) THEN 1 ELSE 0)
       /\ Count(EvLaneSwitch, out') =
            (IF C13_IncrementFrom(EKF_CHECK_ITERATIONS_MAX - 2) THEN 1 ELSE 0)
       /\ Emitted(EvYawReset, out') =>
            /\ fail_count' = EKF_CHECK_ITERATIONS_MAX - 2
            /\ ~bad_variance /\ ~bad_variance'
       /\ Emitted(EvLaneSwitch, out') =>
            /\ fail_count' = EKF_CHECK_ITERATIONS_MAX - 1
            /\ ~bad_variance /\ ~bad_variance']_vars

C13_Witness ==
    /\ Emitted(EvYawReset, out) /\ run = 0
    /\ fail_count = EKF_CHECK_ITERATIONS_MAX - 2 /\ ~bad_variance

\* C14: a tick without an origin changes nothing of the monitor's state or
\* of the published flag and has no side effect, whatever the armed state,
\* the flight mode and the threshold are.
C14_NoOriginNoAction ==
    [][(tick'.op = "ekf_check" /\ ~tick'.origin) =>
            State' = State /\ out' = <<>>]_vars

C14_Witness ==
    /\ tick.op = "ekf_check" /\ ~tick.origin /\ ~tick.armed
    /\ bad_variance /\ failsafe_on /\ ekf_bad
    /\ fail_count = EKF_CHECK_ITERATIONS_MAX /\ out = <<>>

\* C15: an active tick with a true verdict taken while bad_variance is true
\* changes nothing and has no side effect.
C15_LatchedTrueNoOp ==
    [][(OriginTick(tick') /\ ~GateOff(tick') /\ tick'.verdict /\ bad_variance)
            => State' = State /\ out' = <<>>]_vars

C15_Witness ==
    /\ OriginTick(tick) /\ ~GateOff(tick) /\ tick.verdict
    /\ bad_variance /\ fail_count = 1 /\ out = <<>> /\ failsafe_on

\* C16: at every tick boundary the failsafe and the published flag both
\* equal bad_variance, and a tick that logs bad-variance also logs
\* failsafe-occurred.
C16_FlagsAgree ==
    /\ failsafe_on = bad_variance
    /\ ekf_bad = bad_variance
    /\ Emitted(EvBadVariance, out) => Emitted(EvFsOccurred, out)

C16_Witness ==
    /\ bad_variance /\ failsafe_on /\ ekf_bad
    /\ Emitted(EvBadVariance, out) /\ Emitted(EvFsOccurred, out)

\* C17: no tick requests a mode switch: Failsafe-Engage is called only on a
\* tick whose gate found the vehicle outside a position-velocity mode, and
\* a tick inside such a mode leaves the failsafe off.
C17_NoModeSwitchFromTick ==
    /\ CountIn(ModeSwitchEvents, out) = 0
    /\ Emitted(EvCallEngage, out) => ~tick.posvel
    /\ (OriginTick(tick) /\ tick.posvel)
          => ~failsafe_on /\ ~Emitted(EvCallEngage, out)

C17_Witness ==
    /\ OriginTick(tick) /\ ~tick.posvel /\ tick.auto
    /\ out = <<EvBadVariance, EvCallEngage, EvFsOccurred>> /\ failsafe_on

\* C12 as stated: two consecutive latches whose clocks are within the
\* cooldown of each other send exactly one warning between them; a latch
\* more than the cooldown after last_warn_time sends the warning; and
\* last_warn_time changes only on a tick that sends the warning.
C12_Original ==
    /\ (episode.latch /\ episode.within) => episode.warnings = 1
    /\ (episode.latch /\ episode.due) => episode.warned
    /\ episode.lw_moved => episode.warned

\* C12 as amended: two consecutive latches within the cooldown of each
\* other send at most one warning between them (the second sends none if
\* the first sent one); a latch more than the cooldown after last_warn_time
\* sends the warning; and last_warn_time changes only on a tick that sends
\* the warning.
C12_Amended ==
    /\ (episode.latch /\ episode.within) => episode.warnings <= 1
    /\ (episode.latch /\ episode.due) => episode.warned
    /\ episode.lw_moved => episode.warned

C12_Witness ==
    /\ episode.latch /\ episode.within /\ ~episode.warned
    /\ episode.warnings = 1 /\ last_latch.now # last_warn_time
    /\ tick.now = U32(2 * EKF_CHECK_WARNING_TIME + 1)

\* C18: after the latch, while the ticks pass the gate, bad_variance and
\* the failsafe stay on and fail_count is the limit less the false verdicts
\* so far, however many true verdicts are interleaved; the tick with the
\* false verdict that makes them as many as the limit clears the latch.
C18_ClearOnMaxthFalse ==
    /\ (false_since_latch \in 0..(EKF_CHECK_ITERATIONS_MAX - 1)) =>
          /\ bad_variance /\ failsafe_on
          /\ fail_count = EKF_CHECK_ITERATIONS_MAX - false_since_latch
    /\ false_since_latch = EKF_CHECK_ITERATIONS_MAX =>
          /\ ~bad_variance /\ ~failsafe_on /\ fail_count = 0
          /\ Emitted(EvVarianceCleared, out)

C18_Witness ==
    /\ false_since_latch = EKF_CHECK_ITERATIONS_MAX - 1
    /\ ActiveTickOf(tick, TRUE) /\ streak >= 2
    /\ bad_variance /\ failsafe_on /\ fail_count = 1

\* C19: from any reachable state, as many consecutive active true-verdict
\* ticks as the limit end with bad_variance and the failsafe on, and as many
\* false-verdict ticks end with fail_count = 0 and both off.
C19_BoundedResponse ==
    /\ streak = EKF_CHECK_ITERATIONS_MAX => bad_variance /\ failsafe_on
    /\ streak = -EKF_CHECK_ITERATIONS_MAX =>
          fail_count = 0 /\ ~bad_variance /\ ~failsafe_on

C19_Witness ==
    /\ streak = -EKF_CHECK_ITERATIONS_MAX
    /\ out = <<EvVarianceCleared, EvCallClear, EvFsResolved>>
    /\ fail_count = 0 /\ ~bad_variance /\ ~failsafe_on

\* C20: the tick that declares the variance bad sends the warning exactly
\* when its clock less last_warn_time, modulo 2^32, is more than the
\* cooldown; last_warn_time is 0 at the start and a tick the gate bypasses
\* leaves it alone; so the first such tick, at a clock no more than the
\* cooldown, sends no warning but logs and engages the failsafe.
C20_WarningIffDue ==
    /\ episode.latch => (episode.warned <=> episode.due)
    /\ ~episode.latch => ~episode.warned
    /\ tick.op = "init" => last_warn_time = U32(0)
    /\ (OriginTick(tick) /\ GateOff(tick)) => ~episode.lw_moved
    /\ (episode.first /\ ~Gt32(tick.now, U32(EKF_CHECK_WARNING_TIME))) =>
          /\ ~episode.warned
          /\ last_warn_time = U32(0)
          /\ Emitted(EvBadVariance, out) /\ Emitted(EvFsOccurred, out)
          /\ failsafe_on

C20_Witness ==
    /\ episode.first /\ tick.now = U32(EKF_CHECK_WARNING_TIME)
    /\ ~episode.warned /\ failsafe_on /\ bad_variance
    /\ out = <<EvBadVariance, EvCallEngage, EvFsOccurred>>

====
